---- MODULE Spec2Model ----
(***************************************************************************)
(* TetherDB: a document store on top of the MicroPython btree module.      *)
(* The model follows src/TetherDB/db.py (class Database) and               *)
(* src/TetherDB/utils.py (generate_id, add_id, iso_time, time_to_iso,      *)
(* load_config).                                                           *)
(*                                                                         *)
(* Python values are tagged records, so that values of different Python    *)
(* types are different values: None, int, str, bytes, list.  A str or      *)
(* bytes value holds its characters as a sequence of one-character         *)
(* strings.  A dict is a function from its keys to Python values.          *)
(***************************************************************************)
EXTENDS Integers, Sequences, FiniteSets, TLC

VARIABLES
    db,        \* self.db: the btree, a function from key (the key's bytes) to stored bytes
    db_len,    \* self.db_len: the cached number of live documents
    cfg,       \* self.device_id, self.utc_offset, self.cleanup_seconds (from load_config)
    now,       \* the clock read by time()
    written,   \* history: for each live key, the mapping the caller passed to write and its flag
    ret        \* the call that has just ended: its operation, arguments and outcome

vars == <<db, db_len, cfg, now, written, ret>>

----------------------------------------------------------------------------
(* Bounds of the model. *)

\* the values of getrandbits that the model draws: 0 .. MaxDraw
MaxDraw == 1
\* the clock runs from 0 to MaxTime
MaxTime == 2

----------------------------------------------------------------------------
(* Python values. *)

PyNone == [t |-> "none"]
Num(n) == [t |-> "int", v |-> n]
Text(s) == [t |-> "str", v |-> s]
Bytes(s) == [t |-> "bytes", v |-> s]

IsDict(x) == DOMAIN x \cap {"t"} = {}

\* Python's truth value of None, an int or a str
Truthy(x) ==
    CASE x.t = "none" -> FALSE
      [] x.t = "int" -> x.v # 0
      [] x.t = "str" -> x.v # <<>>
      [] OTHER -> TRUE

\* dict.update(key=value)
Update(d, key, value) ==
    [k \in DOMAIN d \cup {key} |-> IF k = key THEN value ELSE d[k]]

Digits == <<"0", "1", "2", "3", "4", "5", "6", "7", "8", "9">>

\* str(n) for an int n >= 0: its decimal digits
RECURSIVE Str(_)
Str(n) == IF n < 10 THEN <<Digits[n + 1]>> ELSE Str(n \div 10) \o <<Digits[(n % 10) + 1]>>

RECURSIVE Pow2(_)
Pow2(n) == IF n = 0 THEN 1 ELSE 2 * Pow2(n - 1)

\* getrandbits(IdBits)
IdBits == 24

\* the values getrandbits can return
IdSpace == 0 .. (Pow2(IdBits) - 1)

\* the values the model draws, and their document ids
Draws == 0 .. MaxDraw
IdStrings == {Str(n) : n \in Draws}

----------------------------------------------------------------------------
(* json.dumps(...).encode() and json.loads: the stored bytes of a dict are *)
(* its members, a set of <<key, value>> pairs.                             *)

dumps(d) == {<<k, d[k]>> : k \in DOMAIN d}

loads(b) == [k \in {p[1] : p \in b} |-> (CHOOSE p \in b : p[1] = k)[2]]

----------------------------------------------------------------------------
(* utils.py: iso_time and time_to_iso. *)

\* localtime(timestamp)[0:6] for a timestamp within the first day of the
\* MicroPython epoch, 2000-01-01
localtime(timestamp) ==
    <<2000, 1, 1, (timestamp \div 3600) % 24, (timestamp \div 60) % 60, timestamp % 60>>

\* a field below 10 is replaced by '0' + str(field); format() then prints
\* every field in decimal
Pad(date_item) == IF date_item < 10 THEN <<"0">> \o Str(date_item) ELSE Str(date_item)

DefaultOffset == <<"+", "0", "0", ":", "0", "0">>

iso_time(timestamp, utc_offset) ==
    LET f == localtime(timestamp)
    IN  Pad(f[1]) \o <<"-">> \o Pad(f[2]) \o <<"-">> \o Pad(f[3]) \o <<"T">>
        \o Pad(f[4]) \o <<":">> \o Pad(f[5]) \o <<":">> \o Pad(f[6]) \o utc_offset

\* time_to_iso(document, utc_offset=''): an empty offset selects iso_time's default
time_to_iso(document, utc_offset) ==
    Update(document, "timestamp",
           Text(iso_time(document["timestamp"].v,
                         IF utc_offset # <<>> THEN utc_offset ELSE DefaultOffset)))

\* add_id(document_id, document): the btree key, still bytes, under 'document_id'
add_id(document_id, document) == Update(document, "document_id", Bytes(document_id))

----------------------------------------------------------------------------
(* The btree: keys() and items() iterate in ascending order of the key     *)
(* bytes.                                                                  *)

CharCode(c) == CHOOSE i \in 1 .. Len(Digits) : Digits[i] = c

RECURSIVE KeyLess(_, _)
KeyLess(a, b) ==
    IF a = <<>> THEN b # <<>>
    ELSE IF b = <<>> THEN FALSE
    ELSE IF Head(a) = Head(b) THEN KeyLess(Tail(a), Tail(b))
    ELSE CharCode(Head(a)) < CharCode(Head(b))

RECURSIVE SortKeys(_)
SortKeys(S) ==
    IF S = {} THEN <<>>
    ELSE LET m == CHOOSE k \in S : \A o \in S \ {k} : KeyLess(k, o)
         IN  <<m>> \o SortKeys(S \ {m})

\* db.keys(), in the btree's order
keys(d) == SortKeys(DOMAIN d)

EmptyDb == [k \in {} |-> {}]

\* del db[key]
Remove(d, key) == [k \in DOMAIN d \ {key} |-> d[k]]

\* db.put(key, value)
Put(d, key, value) == [k \in DOMAIN d \cup {key} |-> IF k = key THEN value ELSE d[k]]

----------------------------------------------------------------------------
(* utils.py: generate_id.  `draw` is the value of the first getrandbits.   *)
(* When str(draw) is a live key the function calls itself, drops what the  *)
(* call returns, leaves the loop by `break` and returns None.  The nested  *)
(* call changes no state, so only the first draw decides the result.       *)

\* a generate_id that returns its first draw unchecked
generate_id_unchecked(db_object, draw) == Text(Str(draw))

generate_id(db_object, draw) ==
    LET doc_id == Str(draw)
    IN  IF doc_id \in DOMAIN db_object THEN PyNone ELSE Text(doc_id)

----------------------------------------------------------------------------
(* Database.write.  The result is the store after the call and the call's  *)
(* outcome.  put(None, ...) raises TypeError: None has no buffer.          *)

\* the document as write stores it
Stamped(document, device_id, config, clock) ==
    LET stamped == Update(document, "timestamp", Num(clock))
    IN  IF device_id THEN Update(stamped, "device_id", config.device_id) ELSE stamped

\* a write that counts the document before the put that raises
write_counts_first(d, len, config, clock, document, device_id, draw) ==
    IF ~IsDict(document)
    THEN [db |-> d, db_len |-> len, out |-> "TypeError", id |-> PyNone]
    ELSE LET _id == generate_id(d, draw)
         IN  IF _id = PyNone
             THEN [db |-> d, db_len |-> len + 1, out |-> "TypeError", id |-> _id]
             ELSE [db |-> Put(d, _id.v, dumps(Stamped(document, device_id, config, clock))),
                   db_len |-> len + 1, out |-> "ok", id |-> _id]

write(d, len, config, clock, document, device_id, draw) ==
    IF ~IsDict(document)
    THEN [db |-> d, db_len |-> len, out |-> "TypeError", id |-> PyNone]
    ELSE LET _id == generate_id(d, draw)
         IN  IF _id = PyNone
             THEN [db |-> d, db_len |-> len, out |-> "TypeError", id |-> _id]
             ELSE [db |-> Put(d, _id.v, dumps(Stamped(document, device_id, config, clock))),
                   db_len |-> len + 1, out |-> "ok", id |-> _id]

\* the caller's object after write(document, device_id): document.update
\* changes the dict that was passed, before put; a payload that is no dict
\* is left alone
document_after_write(document, device_id, config, clock) ==
    IF IsDict(document) THEN Stamped(document, device_id, config, clock) ELSE document

----------------------------------------------------------------------------
(* Database.delete. *)

\* a delete(_id) that counts down before `del` raises KeyError
delete_one_counts_first(d, len, _id) ==
    IF _id \in DOMAIN d
    THEN [db |-> Remove(d, _id), db_len |-> len - 1, out |-> "deleted", n |-> 1]
    ELSE [db |-> d, db_len |-> len - 1, out |-> "not_found", n |-> 0]

\* delete(_id): `del self.db[_id]` raises KeyError for an absent key
delete_one(d, len, _id) ==
    IF _id \in DOMAIN d
    THEN [db |-> Remove(d, _id), db_len |-> len - 1, out |-> "deleted", n |-> 1]
    ELSE [db |-> d, db_len |-> len, out |-> "not_found", n |-> 0]

\* a delete(drop_all=True) that opens the file again without truncating it
drop_all_keeps_file(d, len) ==
    [db |-> d, db_len |-> 0, out |-> "deleted", n |-> len]

\* delete(drop_all=True): the file is truncated and opened again
drop_all_documents(d, len) ==
    [db |-> EmptyDb, db_len |-> 0, out |-> "deleted", n |-> len]

\* with neither or both arguments no branch runs and the final format() reads
\* documents_deleted, which was never assigned: UnboundLocalError
delete(d, len, _id, drop_all) ==
    IF _id # <<>> /\ ~drop_all THEN delete_one(d, len, _id)
    ELSE IF drop_all /\ _id = <<>> THEN drop_all_documents(d, len)
    ELSE [db |-> d, db_len |-> len, out |-> "UnboundLocalError", n |-> 0]

----------------------------------------------------------------------------
(* Database.read. *)

\* a read(document_id) whose scan keeps the last document of items(), whatever
\* its key
read_one_last(d, config, document_id, iso_8601) ==
    IF document_id \notin DOMAIN d
    THEN [out |-> "ok", val |-> PyNone]
    ELSE LET order == keys(d)
             doc_id == order[Len(order)]
         IN  [out |-> "ok",
              val |-> Update(time_to_iso(loads(d[doc_id]), config.utc_offset.v),
                             "_id", Text(doc_id))]

\* read(document_id): the scan of items(); at most one key equals document_id.
\* With iso_8601 false `document` is still the stored bytes, and the
\* assignment document['_id'] = ... raises TypeError.
read_one(d, config, document_id, iso_8601) ==
    IF document_id \notin DOMAIN d
    THEN [out |-> "ok", val |-> PyNone]
    ELSE IF ~iso_8601
    THEN [out |-> "TypeError", val |-> PyNone]
    ELSE LET db_doc == loads(d[document_id])
             document == IF Truthy(config.utc_offset)
                         THEN time_to_iso(db_doc, config.utc_offset.v)
                         ELSE time_to_iso(db_doc, <<>>)
         IN  [out |-> "ok", val |-> Update(document, "_id", Text(document_id))]

\* read(query_all=True): the generator's documents, in key order.  The branch
\* taken when utc_offset is set passes no offset, the other passes the unset
\* offset.
read_all(d, config, iso_8601) ==
    LET order == keys(d)
        one(doc_id) ==
            IF iso_8601
            THEN IF Truthy(config.utc_offset)
                 THEN time_to_iso(add_id(doc_id, loads(d[doc_id])), <<>>)
                 ELSE time_to_iso(add_id(doc_id, loads(d[doc_id])), config.utc_offset.v)
            ELSE add_id(doc_id, loads(d[doc_id]))
    IN  [i \in 1 .. Len(order) |-> one(order[i])]

read(d, config, document_id, iso_8601, query_all) ==
    IF document_id # <<>> /\ ~query_all THEN read_one(d, config, document_id, iso_8601)
    ELSE IF query_all /\ document_id = <<>>
    THEN [out |-> "generator", val |-> read_all(d, config, iso_8601)]
    ELSE [out |-> "ok", val |-> PyNone]

----------------------------------------------------------------------------
(* Database.cleanup. *)

\* a head of cleanup that scans with threshold 0 when it has no seconds
cleanup_threshold_zero(config, seconds) ==
    IF Truthy(config.cleanup_seconds)
    THEN [out |-> "scan", seconds |-> config.cleanup_seconds]
    ELSE IF Truthy(seconds) /\ seconds.t # "int"
    THEN [out |-> "TypeError", seconds |-> seconds]
    ELSE IF ~Truthy(seconds)
    THEN [out |-> "scan", seconds |-> Num(0)]
    ELSE [out |-> "scan", seconds |-> seconds]

\* the head of cleanup: which threshold the scan uses, or how the call ends
\* before the scan
cleanup_threshold(config, seconds) ==
    IF Truthy(config.cleanup_seconds)
    THEN [out |-> "scan", seconds |-> config.cleanup_seconds]
    ELSE IF Truthy(seconds) /\ seconds.t # "int"
    THEN [out |-> "TypeError", seconds |-> seconds]
    ELSE IF ~Truthy(seconds)
    THEN [out |-> "provide_seconds", seconds |-> seconds]
    ELSE [out |-> "scan", seconds |-> seconds]

\* time() - loads(document)['timestamp'] >= seconds; the clock does not
\* advance while one scan runs
Expired(stored, clock, seconds) == clock - loads(stored)["timestamp"].v >= seconds

\* The scan deletes from the btree while it iterates over it.  Nothing in
\* the program says where the iterator stands once the key under it is
\* deleted: it moves either to the key that followed the deleted one, or one
\* key further (`skips`), as an iterator that counts positions does.
cursor_after_delete(i, skips) == IF skips THEN i + 2 ELSE i + 1

\* the keys the scan deletes, from position i of the key order
RECURSIVE scan(_, _, _, _, _, _)
scan(d, order, i, clock, seconds, skips) ==
    IF i > Len(order) THEN {}
    ELSE IF Expired(d[order[i]], clock, seconds)
    THEN {order[i]} \cup scan(d, order, cursor_after_delete(i, skips),
                              clock, seconds, skips)
    ELSE scan(d, order, i + 1, clock, seconds, skips)

\* cleanup(seconds) for one behaviour of the iterator
cleanup(d, len, config, clock, seconds, skips) ==
    LET head == cleanup_threshold(config, seconds)
    IN  IF head.out # "scan"
        THEN [db |-> d, db_len |-> len, out |-> head.out, n |-> 0, threshold |-> head.seconds]
        ELSE LET deleted == scan(d, keys(d), 1, clock, head.seconds.v, skips)
             IN  [db |-> [k \in DOMAIN d \ deleted |-> d[k]],
                  db_len |-> len - Cardinality(deleted),
                  out |-> "scanned", n |-> Cardinality(deleted),
                  threshold |-> head.seconds]

----------------------------------------------------------------------------
(* utils.py: Document.  A JSON array is List(<<...>>); the attributes of a *)
(* Document are its __dict__, a dict from attribute name to value.         *)

List(s) == [t |-> "list", v |-> s]

\* repr of a list element: an int in decimal, a str between quotes
repr(x) == IF x.t = "int" THEN Str(x.v) ELSE <<"'">> \o x.v \o <<"'">>

\* ', '.join(repr(x) for x in s)
RECURSIVE join(_)
join(s) ==
    IF s = <<>> THEN <<>>
    ELSE IF Len(s) = 1 THEN repr(s[1])
    ELSE repr(s[1]) \o <<",", " ">> \o join(Tail(s))

\* str(value) of an int, a str, bytes or a list
str(value) ==
    CASE value.t = "int" -> Str(value.v)
      [] value.t = "str" -> value.v
      [] value.t = "bytes" -> <<"b", "'">> \o value.v \o <<"'">>
      [] value.t = "list" -> <<"[">> \o join(value.v) \o <<"]">>

\* Document._set_attrs(dct, parent): the (name, value) pairs it sets.  The
\* branch taken under a parent sets the value as it is, a list included.
RECURSIVE _set_attrs(_, _)
_set_attrs(dct, parent) ==
    UNION { LET value == dct[key]
            IN  IF IsDict(value) /\ parent = "" THEN _set_attrs(value, key)
                ELSE IF IsDict(value) THEN _set_attrs(value, parent \o "__" \o key)
                ELSE IF parent # "" THEN {<<parent \o "__" \o key, value>>}
                ELSE IF value.t = "list" THEN {<<key, Text(str(value))>>}
                ELSE {<<key, value>>}
            : key \in DOMAIN dct }

\* Document(document).__dict__.items()
Document(document) == _set_attrs(document, "")

----------------------------------------------------------------------------
(* Database.filter.  kwargs is the sequence of (key, value) pairs in the   *)
(* order kwargs.items() yields them; a dict's items() is its set of pairs. *)

\* frozenset(d.items()) raises TypeError when a value is a list
Hashable(items) == \A p \in items : p[2].t # "list"

\* re.compile(value[:-1]).match(s) for a value without regex operators:
\* s starts with value[:-1]
match(value, s) ==
    LET pattern == SubSeq(value, 1, Len(value) - 1)
    IN  Len(pattern) <= Len(s) /\ SubSeq(s, 1, Len(pattern)) = pattern

\* str(value).endswith('*')
IsWildcard(value) == LET s == str(value) IN s # <<>> /\ s[Len(s)] = "*"

\* kw_items after the first n pairs of kwargs: a list gets its string form
kw_items(kwargs, n) ==
    { <<kwargs[i][1], IF kwargs[i][2].t = "list" THEN Text(str(kwargs[i][2])) ELSE kwargs[i][2]>>
      : i \in 1 .. n }

\* _frozen_compare(keywords, document, db_doc) for hashable values
_frozen_compare(keywords, document) == (keywords \cap document) = keywords

\* the body of filter's loop for one stored document with attributes attrs:
\* the comparison runs after each pair is added to kw_items, then the
\* wildcards are matched and the matched attributes compared with themselves
filter_document(kwargs, attrs) ==
    LET all == kw_items(kwargs, Len(kwargs))
        wild == {p \in all : IsWildcard(p[2])}
        names == {p[1] : p \in attrs}
        matched_kwargs == {p \in attrs : \E w \in wild :
                               /\ w[1] = p[1]
                               /\ match(w[2].v, str(p[2]))}
    IN  IF kwargs # <<>> /\ ~Hashable(attrs) THEN "TypeError"
        ELSE IF \E p \in wild : p[1] \notin names THEN "KeyError"
        ELSE IF \/ \E n \in 1 .. Len(kwargs) : _frozen_compare(kw_items(kwargs, n), attrs)
                \/ matched_kwargs # {} /\ _frozen_compare(matched_kwargs, attrs)
        THEN "match" ELSE "skip"

\* db_doc of filter's loop: the id under 'document_id', the display timestamp
filter_db_doc(d, config, _id) ==
    IF Truthy(config.utc_offset)
    THEN time_to_iso(add_id(_id, loads(d[_id])), config.utc_offset.v)
    ELSE time_to_iso(add_id(_id, loads(d[_id])), <<>>)

\* filter(**kwargs): the first exception in key order ends the call; else
\* the generator's documents in key order, or None when there is none
filter(d, config, kwargs) ==
    LET order == keys(d)
        db_doc(i) == filter_db_doc(d, config, order[i])
        out(i) == filter_document(kwargs, Document(db_doc(i)))
        raised == {i \in 1 .. Len(order) : out(i) \in {"TypeError", "KeyError"}}
        chosen(i) == out(i) = "match"
        positions == SelectSeq([i \in 1 .. Len(order) |-> i], chosen)
    IN  IF raised # {}
        THEN [out |-> out(CHOOSE i \in raised : \A j \in raised : i <= j), val |-> PyNone]
        ELSE IF positions = <<>> THEN [out |-> "none", val |-> PyNone]
        ELSE [out |-> "generator", val |-> [k \in 1 .. Len(positions) |-> db_doc(positions[k])]]

----------------------------------------------------------------------------
(* Database.__init__ and the methods on a store that was not opened.       *)
(* listdir of a missing parent directory raises OSError, _db_init returns  *)
(* None, and __init__ then leaves self.db_len unassigned.                  *)

\* self.db_len before any assignment
Unset == [t |-> "unset"]

_db_init(parent_exists) == IF parent_exists THEN EmptyDb ELSE PyNone

\* write: generate_id calls None.keys()
write_unopened(document) ==
    IF ~IsDict(document) THEN "TypeError" ELSE "AttributeError"

\* read: both modes call None.items(); with neither mode a hint is printed
read_unopened(document_id, query_all) ==
    IF document_id # <<>> /\ ~query_all THEN "AttributeError"
    ELSE IF query_all /\ document_id = <<>> THEN "AttributeError"
    ELSE "ok"

\* delete: `del None[_id]` raises TypeError, which `except KeyError` lets
\* pass; drop_all reads self.db_len
delete_unopened(_id, drop_all) ==
    IF _id # <<>> /\ ~drop_all THEN "TypeError"
    ELSE IF drop_all /\ _id = <<>> THEN "AttributeError"
    ELSE "UnboundLocalError"

\* filter: the loop calls None.items(), whatever kwargs holds
filter_unopened(kwargs) == "AttributeError"

\* cleanup: past its head the scan calls None.items()
cleanup_unopened(config, seconds) ==
    LET head == cleanup_threshold(config, seconds)
    IN  IF head.out = "scan" THEN "AttributeError" ELSE head.out

\* __len__ returns self.db_len
len_unopened(len) == IF len = Unset THEN "AttributeError" ELSE "ok"

----------------------------------------------------------------------------
(* The inputs of the calls. *)

\* the mappings passed to write; the second carries the names that write and
\* read inject
Documents ==
    { [name |-> Text(<<"a">>)],
      [name |-> Text(<<"b">>), timestamp |-> Num(7), device_id |-> Text(<<"x">>),
       _id |-> Text(<<"z">>)] }

\* a payload that is no dict
NotADict == Text(<<"a">>)

\* the ids passed to read and delete: none, every id of the id space, and a
\* string that is no id
IdArguments == {<<>>} \cup IdStrings \cup {<<"x">>}

\* the seconds passed to cleanup: none, 0, thresholds up to one more than
\* the oldest age, and a str
SecondsArguments == {PyNone} \cup {Num(n) : n \in 0 .. (MaxTime + 1)} \cup {Text(<<"1">>)}

\* load_config: device_id is never empty; utc_offset may be empty;
\* cleanup_seconds is an int, or '' when the file's value is no int
Configurations ==
    [device_id : {Text(<<"d">>)},
     utc_offset : {Text(<<>>), Text(<<"+", "1">>)},
     cleanup_seconds : {Text(<<>>), Num(0), Num(1)}]

----------------------------------------------------------------------------
(* The state machine. *)

\* no call has ended that the caller has not yet taken the result of
Idle == [op |-> "idle"]

\* Database(): the configuration is loaded and a new file holds no document
Init ==
    /\ cfg \in Configurations
    /\ db = EmptyDb
    /\ db_len = 0
    /\ now = 0
    /\ written = EmptyDb
    /\ ret = Idle

Write ==
    \E document \in Documents \cup {NotADict}, device_id \in BOOLEAN, draw \in Draws :
        LET r == write(db, db_len, cfg, now, document, device_id, draw)
        IN  /\ ret = Idle
            /\ db' = r.db
            /\ db_len' = r.db_len
            /\ written' = IF r.out = "ok"
                          THEN Put(written, r.id.v, [document |-> document, device_id |-> device_id])
                          ELSE written
            /\ ret' = [op |-> "write", document |-> document, device_id |-> device_id,
                       draw |-> draw, id |-> r.id, out |-> r.out]
            /\ UNCHANGED <<cfg, now>>

Delete ==
    \E _id \in IdArguments, drop_all \in BOOLEAN :
        LET r == delete(db, db_len, _id, drop_all)
        IN  /\ ret = Idle
            /\ db' = r.db
            /\ db_len' = r.db_len
            /\ written' = [k \in DOMAIN r.db |-> written[k]]
            /\ ret' = [op |-> "delete", _id |-> _id, drop_all |-> drop_all,
                       out |-> r.out, n |-> r.n]
            /\ UNCHANGED <<cfg, now>>

Read ==
    \E document_id \in IdArguments, iso_8601 \in BOOLEAN, query_all \in BOOLEAN :
        LET r == read(db, cfg, document_id, iso_8601, query_all)
        IN  /\ ret = Idle
            /\ ret' = [op |-> "read", document_id |-> document_id, iso_8601 |-> iso_8601,
                       query_all |-> query_all, out |-> r.out, val |-> r.val]
            /\ UNCHANGED <<db, db_len, cfg, now, written>>

Cleanup ==
    \E seconds \in SecondsArguments, skips \in BOOLEAN :
        LET r == cleanup(db, db_len, cfg, now, seconds, skips)
        IN  /\ ret = Idle
            /\ db' = r.db
            /\ db_len' = r.db_len
            /\ written' = [k \in DOMAIN r.db |-> written[k]]
            /\ ret' = [op |-> "cleanup", seconds |-> seconds, out |-> r.out, n |-> r.n,
                       threshold |-> r.threshold]
            /\ UNCHANGED <<cfg, now>>

\* the caller takes the result of the call that has ended; the calls are
\* synchronous, so the next call starts after that
Return ==
    /\ ret # Idle
    /\ ret' = Idle
    /\ UNCHANGED <<db, db_len, cfg, now, written>>

\* time passes between two calls
Tick ==
    /\ ret = Idle
    /\ now < MaxTime
    /\ now' = now + 1
    /\ UNCHANGED <<db, db_len, cfg, written, ret>>

Next == Write \/ Delete \/ Read \/ Cleanup \/ Return \/ Tick

Spec == Init /\ [][Next]_vars

----------------------------------------------------------------------------
(* The store under filter: documents with nested mappings and lists are    *)
(* written, then filtered.                                                 *)

\* the mappings written before filtering: two flat ones that share a field,
\* one with a nested mapping and a list at the top, one with a list inside a
\* nested mapping
FlatDocuments ==
    { [name |-> Text(<<"A", "l">>), age |-> Num(1)],
      [name |-> Text(<<"B", "o">>), age |-> Num(1)] }

NestedDocuments ==
    { [user |-> [name |-> Text(<<"A", "l">>)], tags |-> List(<<Num(1)>>)],
      [user |-> [tags |-> List(<<Num(1)>>)]] }

\* the predicates of a filter call
Predicates ==
    { <<"name", Text(<<"A", "l">>)>>, <<"name", Text(<<"A", "*">>)>>,
      <<"age", Num(1)>>, <<"age", Num(2)>>,
      <<"user__name", Text(<<"A", "l">>)>>, <<"tags", List(<<Num(1)>>)>> }

\* the kwargs of a filter call: up to two predicates on different keys, in
\* either order
KwargsArguments ==
    {<<>>} \cup {<<p>> : p \in Predicates}
           \cup {<<pq[1], pq[2]>> : pq \in {x \in Predicates \X Predicates : x[1][1] # x[2][1]}}

WriteNested ==
    \E document \in FlatDocuments \cup NestedDocuments, draw \in Draws :
        LET r == write(db, db_len, cfg, now, document, FALSE, draw)
        IN  /\ ret = Idle
            /\ db' = r.db
            /\ db_len' = r.db_len
            /\ written' = IF r.out = "ok"
                          THEN Put(written, r.id.v, [document |-> document, device_id |-> FALSE])
                          ELSE written
            /\ ret' = [op |-> "write", document |-> document, device_id |-> FALSE,
                       draw |-> draw, id |-> r.id, out |-> r.out]
            /\ UNCHANGED <<cfg, now>>

Filter ==
    \E kwargs \in KwargsArguments :
        LET r == filter(db, cfg, kwargs)
        IN  /\ ret = Idle
            /\ ret' = [op |-> "filter", kwargs |-> kwargs, out |-> r.out, val |-> r.val]
            /\ UNCHANGED <<db, db_len, cfg, now, written>>

NextFilter == WriteNested \/ Filter \/ Return

SpecFilter == Init /\ [][NextFilter]_vars

----------------------------------------------------------------------------
(* The store whose parent directory is missing. *)

InitUnopened ==
    /\ cfg \in Configurations
    /\ db = _db_init(FALSE)
    /\ db_len = Unset
    /\ now = 0
    /\ written = EmptyDb
    /\ ret = Idle

WriteUnopened ==
    \E document \in Documents \cup {NotADict}, device_id \in BOOLEAN :
        /\ ret = Idle
        /\ ret' = [op |-> "write", document |-> document, device_id |-> device_id,
                   out |-> write_unopened(document)]
        /\ UNCHANGED <<db, db_len, cfg, now, written>>

ReadUnopened ==
    \E document_id \in IdArguments, iso_8601 \in BOOLEAN, query_all \in BOOLEAN :
        /\ ret = Idle
        /\ ret' = [op |-> "read", document_id |-> document_id, iso_8601 |-> iso_8601,
                   query_all |-> query_all, out |-> read_unopened(document_id, query_all)]
        /\ UNCHANGED <<db, db_len, cfg, now, written>>

DeleteUnopened ==
    \E _id \in IdArguments, drop_all \in BOOLEAN :
        /\ ret = Idle
        /\ ret' = [op |-> "delete", _id |-> _id, drop_all |-> drop_all,
                   out |-> delete_unopened(_id, drop_all)]
        /\ UNCHANGED <<db, db_len, cfg, now, written>>

FilterUnopened ==
    \E kwargs \in KwargsArguments :
        /\ ret = Idle
        /\ ret' = [op |-> "filter", kwargs |-> kwargs, out |-> filter_unopened(kwargs)]
        /\ UNCHANGED <<db, db_len, cfg, now, written>>

CleanupUnopened ==
    \E seconds \in SecondsArguments :
        /\ ret = Idle
        /\ ret' = [op |-> "cleanup", seconds |-> seconds,
                   out |-> cleanup_unopened(cfg, seconds)]
        /\ UNCHANGED <<db, db_len, cfg, now, written>>

LenUnopened ==
    /\ ret = Idle
    /\ ret' = [op |-> "len", out |-> len_unopened(db_len)]
    /\ UNCHANGED <<db, db_len, cfg, now, written>>

NextUnopened ==
    \/ WriteUnopened \/ ReadUnopened \/ DeleteUnopened \/ FilterUnopened
    \/ CleanupUnopened \/ LenUnopened \/ Return

SpecUnopened == InitUnopened /\ [][NextUnopened]_vars

----------------------------------------------------------------------------
(* The caller that writes one object twice.  `ret` of a write holds the    *)
(* object as it was passed (document), as the call left it (after), and,   *)
(* for the second write of an object, the first call (first).              *)

WriteObject ==
    \E document \in Documents \cup {NotADict}, device_id \in BOOLEAN, draw \in Draws :
        LET r == write(db, db_len, cfg, now, document, device_id, draw)
        IN  /\ ret = Idle
            /\ db' = r.db
            /\ db_len' = r.db_len
            /\ written' = IF r.out = "ok"
                          THEN Put(written, r.id.v, [document |-> document, device_id |-> device_id])
                          ELSE written
            /\ ret' = [op |-> "write", document |-> document, device_id |-> device_id,
                       draw |-> draw, id |-> r.id, out |-> r.out,
                       after |-> document_after_write(document, device_id, cfg, now),
                       first |-> Idle]
            /\ UNCHANGED <<cfg, now>>

\* the caller passes the object of the write that has just ended once more
WriteAgain ==
    \E device_id \in BOOLEAN, draw \in Draws :
        LET document == ret.after
            r == write(db, db_len, cfg, now, document, device_id, draw)
        IN  /\ ret.op = "write"
            /\ ret.first = Idle
            /\ db' = r.db
            /\ db_len' = r.db_len
            /\ written' = IF r.out = "ok"
                          THEN Put(written, r.id.v, [document |-> document, device_id |-> device_id])
                          ELSE written
            /\ ret' = [op |-> "write", document |-> document, device_id |-> device_id,
                       draw |-> draw, id |-> r.id, out |-> r.out,
                       after |-> document_after_write(document, device_id, cfg, now),
                       first |-> [op |-> "write", document |-> ret.document,
                                  device_id |-> ret.device_id]]
            /\ UNCHANGED <<cfg, now>>

NextRewrite == WriteObject \/ WriteAgain \/ Return

SpecRewrite == Init /\ [][NextRewrite]_vars

----------------------------------------------------------------------------
\* C1: after every completed call the cached counter equals the number of
\* keys in the btree.
CountMatchesKeys == db_len = Cardinality(DOMAIN db)


C1Witness ==
    /\ ret.op = "cleanup"
    /\ ret.n >= 1
    /\ db_len = 1
    /\ Cardinality(DOMAIN db) = 1

----------------------------------------------------------------------------
\* C2: write stores only under an id that is no live key, so every stored
\* document keeps its stored bytes, timestamp included, until delete(id),
\* delete(drop_all) or cleanup removes it.
StoredDocumentsKeepTheirValue ==
    [][ /\ \A k \in DOMAIN db :
             \/ k \in DOMAIN db' /\ db'[k] = db[k]
             \/ k \notin DOMAIN db' /\ ret'.op \in {"delete", "cleanup"}
        /\ (ret'.op = "write" /\ ret'.out = "ok")
             => ret'.id.v \notin DOMAIN db /\ ret'.id.v \in DOMAIN db'
      ]_vars

\* a write whose draw is a live key has ended, and the document under that
\* key is the one written there before
C2Witness ==
    /\ ret.op = "write"
    /\ IsDict(ret.document)
    /\ ret.out = "TypeError"
    /\ Str(ret.draw) \in DOMAIN db
    /\ written[Str(ret.draw)].document # ret.document

----------------------------------------------------------------------------
\* the names write injects into a document and read into its result
InjectedNames(device_id) ==
    {"timestamp", "_id"} \cup (IF device_id THEN {"device_id"} ELSE {})

\* read(id) of every live key returns a dict with a timestamp, the id and
\* the written fields other than those of names(device_id)
ReadReturns(names(_)) ==
    \A k \in DOMAIN db :
        LET r == read(db, cfg, k, TRUE, FALSE)
            w == written[k]
        IN  /\ r.out = "ok"
            /\ IsDict(r.val)
            /\ {"timestamp", "_id"} \subseteq DOMAIN r.val
            /\ \A f \in DOMAIN w.document \ names(w.device_id) :
                   f \in DOMAIN r.val /\ r.val[f] = w.document[f]

NoNames(device_id) == {}

\* C3 as stated: read(id) of a live document returns every field of the
\* mapping that was passed to write, with its value, and a timestamp and the
\* id, whatever was written and deleted under other ids since.
ReadReturnsEveryWrittenField == ReadReturns(NoNames)

\* C3 as amended: read(id) of a live document returns every field of the
\* written mapping whose name is not an injected one, with its value, and a
\* timestamp and the id.
ReadReturnsWrittenFields == ReadReturns(InjectedNames)

\* a read of one of two live documents, the other written later
C3Witness ==
    /\ ret.op = "read"
    /\ ret.document_id \in DOMAIN db
    /\ ret.out = "ok"
    /\ IsDict(ret.val)
    /\ \E o \in DOMAIN db :
           /\ o # ret.document_id
           /\ loads(db[o])["timestamp"].v > loads(db[ret.document_id])["timestamp"].v
           /\ written[o].document # written[ret.document_id].document
    /\ ret.val["name"] = written[ret.document_id].document["name"]

----------------------------------------------------------------------------
\* int(s) for a string of decimal digits
RECURSIVE DecimalValue(_)
DecimalValue(s) ==
    IF s = <<>> THEN 0
    ELSE 10 * DecimalValue(SubSeq(s, 1, Len(s) - 1)) + (CharCode(s[Len(s)]) - 1)

\* a str that is the decimal string of a value of the id space
IsDocumentId(x) ==
    /\ x.t = "str"
    /\ x.v # <<>>
    /\ \A i \in 1 .. Len(x.v) : \E j \in 1 .. Len(Digits) : Digits[j] = x.v[i]
    /\ DecimalValue(x.v) \in IdSpace
    /\ Str(DecimalValue(x.v)) = x.v

\* C4: while an id of the id space is unused, generate_id returns a valid
\* document id that is no live key, also when its first draw is a live key,
\* and the write stores under it.
GenerateIdReturnsUnusedId ==
    [][ (/\ ret'.op = "write"
         /\ IsDict(ret'.document)
         /\ Cardinality(DOMAIN db) < Cardinality(IdSpace))
        => /\ IsDocumentId(ret'.id)
           /\ ret'.id.v \notin DOMAIN db
           /\ ret'.out = "ok"
           /\ ret'.id.v \in DOMAIN db'
      ]_vars

----------------------------------------------------------------------------
\* C5: cleanup(seconds=0) deletes every document and leaves the length at
\* zero; cleanup with a threshold above every age deletes no document that
\* was written at the present time.
CleanupZeroDeletesAll ==
    [][ ret'.op = "cleanup"
        => /\ ret'.seconds = Num(0) => (DOMAIN db' = {} /\ db_len' = 0)
           /\ ret'.seconds = Num(MaxTime + 1)
                => \A k \in DOMAIN db :
                       loads(db[k])["timestamp"].v = now => k \in DOMAIN db'
      ]_vars

----------------------------------------------------------------------------
----------------------------------------------------------------------------
\* C7: a cleanup called with a seconds argument scans with that argument as
\* its threshold; the configured cleanup_seconds is the threshold only of a
\* call without argument.
CleanupUsesExplicitSeconds ==
    (ret.op = "cleanup" /\ ret.out = "scanned")
        => ret.threshold = (IF ret.seconds # PyNone THEN ret.seconds
                            ELSE cfg.cleanup_seconds)

----------------------------------------------------------------------------
\* C8: cleanup() without seconds, with no cleanup_seconds configured, ends
\* with the request to provide seconds, deletes nothing and leaves the store
\* and the counter as they were.
CleanupWithoutThresholdChangesNothing ==
    [][ (/\ ret'.op = "cleanup"
         /\ ret'.seconds = PyNone
         /\ ~Truthy(cfg.cleanup_seconds))
        => /\ ret'.out = "provide_seconds"
           /\ ret'.n = 0
           /\ db' = db
           /\ db_len' = db_len
      ]_vars

\* such a call has ended on a store that holds a document of age >= 1
C8Witness ==
    /\ ret.op = "cleanup"
    /\ ret.seconds = PyNone
    /\ ~Truthy(cfg.cleanup_seconds)
    /\ ret.out = "provide_seconds"
    /\ \E k \in DOMAIN db : now - loads(db[k])["timestamp"].v >= 1

----------------------------------------------------------------------------
\* C9: delete(id) of an id that is no live key returns the not-found result
\* and changes neither the keys, the stored values nor the counter;
\* delete(id) of a live id removes that key alone and counts down by one.
DeleteRemovesOnlyLiveId ==
    [][ (ret'.op = "delete" /\ ret'._id # <<>> /\ ~ret'.drop_all)
        => IF ret'._id \in DOMAIN db
           THEN /\ ret'.out = "deleted"
                /\ ret'.n = 1
                /\ DOMAIN db' = DOMAIN db \ {ret'._id}
                /\ \A k \in DOMAIN db' : db'[k] = db[k]
                /\ db_len' = db_len - 1
           ELSE /\ ret'.out = "not_found"
                /\ db' = db
                /\ db_len' = db_len
      ]_vars

\* a delete of an id that was not live has ended on a store that holds a
\* document
C9Witness ==
    /\ ret.op = "delete"
    /\ ret._id \in IdStrings
    /\ ~ret.drop_all
    /\ ret.out = "not_found"
    /\ db_len = 1
    /\ DOMAIN db # {}

----------------------------------------------------------------------------
\* the call r is delete(drop_all=True)
DropAllFlag(r) == r.op = "delete" /\ r.drop_all /\ r._id = <<>>

\* C10: delete(drop_all=True) reports the number of documents that were
\* live, leaves the length at zero and the store empty, so that
\* read(query_all=True) yields no document; any write that follows it is
\* stored and counted.
DropAllEmptiesStore ==
    [][ DropAllFlag(ret')
          => /\ ret'.out = "deleted"
             /\ ret'.n = Cardinality(DOMAIN db)
             /\ db_len' = 0
             /\ DOMAIN db' = {}
             /\ read(db', cfg', <<>>, TRUE, TRUE).val = <<>>
             /\ read(db', cfg', <<>>, FALSE, TRUE).val = <<>>
             /\ \A document \in Documents, device_id \in BOOLEAN, draw \in Draws :
                    LET w == write(db', db_len', cfg', now', document, device_id, draw)
                    IN  /\ w.out = "ok"
                        /\ w.db_len = 1
                        /\ DOMAIN w.db = {Str(draw)}
                        /\ loads(w.db[Str(draw)])["name"] = document["name"]
      ]_vars

\* a drop of two live documents has ended
C10Witness ==
    /\ DropAllFlag(ret)
    /\ ret.n = 2
    /\ db_len = 0
    /\ DOMAIN db = {}

----------------------------------------------------------------------------
\* the outcomes that are an exception leaving the method
Raised(out) == out \in {"TypeError", "UnboundLocalError", "AttributeError", "KeyError"}

\* C15: read(id, iso_8601=False) of a live id returns the document with its
\* id under '_id' and its timestamp as the stored number; of an id that is
\* not live it returns None.
ReadWithoutConversionKeepsEpoch ==
    (ret.op = "read" /\ ret.document_id # <<>> /\ ~ret.query_all /\ ~ret.iso_8601)
        => IF ret.document_id \in DOMAIN db
           THEN /\ ~Raised(ret.out)
                /\ IsDict(ret.val)
                /\ "_id" \in DOMAIN ret.val
                /\ ret.val["_id"] = Text(ret.document_id)
                /\ ret.val["timestamp"] = loads(db[ret.document_id])["timestamp"]
           ELSE ~Raised(ret.out) /\ ret.val = PyNone

----------------------------------------------------------------------------
\* C16: every document that read returns, for one id and for query_all,
\* carries its id under '_id', as the str that read and delete take.
ReadExposesIdUnderOneName ==
    (ret.op = "read" /\ ~Raised(ret.out))
        => /\ (ret.out = "ok" /\ IsDict(ret.val))
                => /\ "_id" \in DOMAIN ret.val
                   /\ ret.val["_id"] = Text(ret.document_id)
           /\ ret.out = "generator"
                => /\ Len(ret.val) = Cardinality(DOMAIN db)
                   /\ \A i \in 1 .. Len(ret.val) :
                          /\ "_id" \in DOMAIN ret.val[i]
                          /\ ret.val[i]["_id"] = Text(keys(db)[i])

----------------------------------------------------------------------------
\* C19: delete with neither an id nor drop_all, or with both, ends without
\* an exception and leaves the keys, the stored values and the counter as
\* they were.
DeleteWithoutOneModeChangesNothing ==
    [][ (ret'.op = "delete" /\ ((ret'._id # <<>>) = ret'.drop_all))
        => /\ ~Raised(ret'.out)
           /\ db' = db
           /\ db_len' = db_len
      ]_vars

----------------------------------------------------------------------------
(* filter and the flattened view. *)

\* the reference flattening: every leaf under the path of its keys joined by
\* '__', a list at any depth in its string form
RECURSIVE Flattened(_, _)
Flattened(dct, parent) ==
    UNION { LET value == dct[key]
                path == IF parent = "" THEN key ELSE parent \o "__" \o key
            IN  IF IsDict(value) THEN Flattened(value, path)
                ELSE IF value.t = "list" THEN {<<path, Text(str(value))>>}
                ELSE {<<path, value>>}
            : key \in DOMAIN dct }

\* a predicate holds in a flattened view: a wildcard by prefix match on the
\* attribute's string form, any other by equality with the attribute
Satisfies(p, view) ==
    IF IsWildcard(p[2])
    THEN \E a \in view : a[1] = p[1] /\ match(p[2].v, str(a[2]))
    ELSE <<p[1], IF p[2].t = "list" THEN Text(str(p[2])) ELSE p[2]>> \in view

\* the documents filter would hand out for the live keys, as a set
FilterDocuments == {filter_db_doc(db, cfg, _id) : _id \in DOMAIN db}

\* the documents the call that has ended handed out
Returned ==
    IF ret.op = "filter" /\ ret.out = "generator" THEN {ret.val[i] : i \in 1 .. Len(ret.val)} ELSE {}

Predicate(i) == ret.kwargs[i]

\* C11: a filter call with two or more predicates, none a wildcard, that ends
\* without an exception hands out exactly the stored documents whose
\* flattened view holds every predicate's pair.
ExactFilterIsConjunction ==
    (/\ ret.op = "filter"
     /\ ~Raised(ret.out)
     /\ Len(ret.kwargs) >= 2
     /\ \A i \in 1 .. Len(ret.kwargs) : ~IsWildcard(Predicate(i)[2]))
        => Returned = {doc \in FilterDocuments :
                          \A i \in 1 .. Len(ret.kwargs) :
                              Satisfies(Predicate(i), Flattened(doc, ""))}

\* C12: every document handed out by a filter call that mixes exact and
\* wildcard predicates satisfies each of them.
MixedFilterIsConjunction ==
    (/\ ret.op = "filter"
     /\ \E i \in 1 .. Len(ret.kwargs) : IsWildcard(Predicate(i)[2])
     /\ \E i \in 1 .. Len(ret.kwargs) : ~IsWildcard(Predicate(i)[2]))
        => \A doc \in Returned :
               \A i \in 1 .. Len(ret.kwargs) : Satisfies(Predicate(i), Flattened(doc, ""))

\* no stored document holds a list inside a nested mapping
NoNestedList == \A doc \in FilterDocuments : Hashable(Document(doc))

\* C13: over a store without nested lists, filter with one wildcard predicate
\* ends without an exception and hands out exactly the documents whose
\* attribute starts with the pattern; a document without the attribute is no
\* match.
WildcardFilterIsPrefixMatch ==
    (/\ ret.op = "filter"
     /\ Len(ret.kwargs) = 1
     /\ IsWildcard(Predicate(1)[2])
     /\ NoNestedList)
        => /\ ~Raised(ret.out)
           /\ Returned = {doc \in FilterDocuments :
                             Satisfies(Predicate(1), Flattened(doc, ""))}

\* C17: the attributes of every stored document are its reference
\* flattening, and no filter call ends with the TypeError of an unhashable
\* attribute.
FlattenedViewIsReference ==
    /\ \A doc \in FilterDocuments : Document(doc) = Flattened(doc, "")
    /\ ret.op = "filter" => ret.out # "TypeError"

\* s ends with suffix
EndsWith(s, suffix) ==
    Len(suffix) <= Len(s) /\ SubSeq(s, Len(s) - Len(suffix) + 1, Len(s)) = suffix

\* C18: every document filter hands out carries the display timestamp that
\* read(id) and read(query_all=True) give for the same key, and it ends with
\* the configured offset, or with +00:00 when none is configured.
DisplayTimestampsAgree ==
    \A doc \in Returned :
        LET _id == doc["document_id"].v
            one == read(db, cfg, _id, TRUE, FALSE).val
            all == read(db, cfg, <<>>, TRUE, TRUE).val
            label == IF Truthy(cfg.utc_offset) THEN cfg.utc_offset.v ELSE DefaultOffset
        IN  /\ one["timestamp"] = doc["timestamp"]
            /\ \A i \in 1 .. Len(all) :
                   all[i]["document_id"].v = _id => all[i]["timestamp"] = doc["timestamp"]
            /\ EndsWith(doc["timestamp"].v, label)

----------------------------------------------------------------------------
\* a call the methods accept: write of a dict, delete in one of its two
\* modes, cleanup with None or an int
WellFormedCall ==
    /\ ret.op = "write" => IsDict(ret.document)
    /\ ret.op = "delete" => ((ret._id # <<>>) # ret.drop_all)
    /\ ret.op = "cleanup" => ret.seconds.t \in {"none", "int"}

\* C14: on the store whose parent directory is missing, opening has left
\* the store unavailable and every accepted call of write, read, delete,
\* filter, cleanup and len ends without an exception.
UnopenedStoreCallsComplete ==
    /\ db = PyNone
    /\ (ret # Idle /\ WellFormedCall) => ~Raised(ret.out)

----------------------------------------------------------------------------
\* the document stored by the second write of one mapping that held no
\* device_id, written first with device_id=True and then with
\* device_id=False, has no device_id
SecondWriteStoresNoDeviceId ==
    (/\ ret.op = "write"
     /\ ret.first # Idle
     /\ ret.out = "ok"
     /\ IsDict(ret.first.document)
     /\ "device_id" \notin DOMAIN ret.first.document
     /\ ret.first.device_id
     /\ ~ret.device_id)
        => "device_id" \notin DOMAIN loads(db[ret.id.v])

\* C20: write leaves the caller's mapping as it was passed, and when one
\* mapping is written with device_id=True and then with device_id=False, the
\* second stored document has no device_id.
WriteLeavesCallersMappingAlone ==
    /\ ret.op = "write" => ret.after = ret.document
    /\ SecondWriteStoresNoDeviceId

====
